---- MODULE Spec2Model ----
(***************************************************************************)
(* Model of the MedImage digital-twin pipeline: the Preprocess Stage       *)
(* (lambdas/ms_latest_outputs.py), the Synthesis Stage                     *)
(* (lambdas/ms_start_generation.py) and the pipeline driver                *)
(* (scripts/invoke_agent.py) over one shared blob store.                   *)
(*                                                                         *)
(* Keys are the real S3 key strings.  Arrays are [shape, dtype, imgs]; an  *)
(* image is symbolic, [id, ops]: the identity of the source image and the  *)
(* numeric operations applied to it, in order.                             *)
(***************************************************************************)
EXTENDS Integers, Sequences, FiniteSets, TLC

VARIABLES store, clock, last, pipe, procs

vars == <<store, clock, last, pipe, procs>>

\* ------------------------------------------------------------------ bounds
\* number of stage invocations explored in one behaviour
MaxCalls == 2
\* batch size of the default dataset
BatchN == 3

\* --------------------------------------------------------------- constants
None == "<None>"

DEFAULT_RAW_KEY == "raw/chestmnist.npz"

NPZ_IMAGE_KEYS == <<"images", "train_images", "val_images", "test_images">>

MAX_PREVIEW == 32

\* Python truthiness of an optional string field
Truthy(v) == v # None /\ v # ""

\* str.endswith
EndsWith(s, suf) ==
    /\ Len(s) >= Len(suf)
    /\ SubSeq(s, Len(s) - Len(suf) + 1, Len(s)) = suf

Min(a, b) == IF a <= b THEN a ELSE b

\* f"{i:04d}"
Fmt4(i) ==
    IF i < 10 THEN "000" \o ToString(i)
    ELSE IF i < 100 THEN "00" \o ToString(i)
    ELSE IF i < 1000 THEN "0" \o ToString(i)
    ELSE ToString(i)

\* f"run_{time.strftime(...)}_{uuid.uuid4().hex[:6]}": a fresh token per call
GenRunId(n) == "run_" \o ToString(n)

\* ------------------------------------------------------------------ arrays
NoArray == [shape |-> <<>>, dtype |-> "", imgs |-> <<>>]

ndim(a) == Len(a.shape)

RECURSIVE Prod(_)
Prod(s) == IF s = <<>> THEN 1 ELSE Head(s) * Prod(Tail(s))

\* ndarray.size
Size(a) == Prod(a.shape)

Img(i) == [id |-> i, ops |-> <<>>]

OpAll(a, op) == [k \in 1..Len(a.imgs) |-> [a.imgs[k] EXCEPT !.ops = Append(@, op)]]

Ok(a) == [ok |-> TRUE, val |-> a, err |-> ""]
Raise(e) == [ok |-> FALSE, val |-> NoArray, err |-> e]

\* -------------------------------------------------------- preprocessing ops
denoise(data) ==
    IF ndim(data) = 3 THEN
        \* np.stack of an empty list raises ValueError
        IF data.shape[1] = 0 THEN Raise("ValueError")
        ELSE Ok([data EXCEPT !.imgs = OpAll(data, "denoise")])
    ELSE IF ndim(data) = 2 THEN
        Ok([data EXCEPT !.imgs = OpAll(data, "denoise")])
    ELSE Raise("ValueError")

normalize(data) ==
    \* np.min of a zero-size array raises ValueError; the rank is not checked;
    \* the extrema are taken over the whole array, so the result of an image
    \* depends on the number of images normalized together
    IF Size(data) = 0 THEN Raise("ValueError")
    ELSE Ok([data EXCEPT !.imgs = OpAll(data, "normalize/" \o ToString(Len(data.imgs))),
                         !.dtype = "float64"])

\* variant: a trailing image that does not fill a stride is dropped
resample_Floor(data, factor) ==
    IF ndim(data) = 3 THEN
        LET m == data.shape[1] \div factor
        IN Ok([data EXCEPT !.imgs = [k \in 1..m |-> data.imgs[(k - 1) * factor + 1]],
                           !.shape = <<m, data.shape[2], data.shape[3]>>])
    ELSE IF ndim(data) = 2 THEN Ok(data)
    ELSE Raise("ValueError")

resample(data, factor) ==
    IF ndim(data) = 3 THEN
        LET n == data.shape[1]
            m == (n + factor - 1) \div factor
        IN Ok([data EXCEPT !.imgs = [k \in 1..m |-> data.imgs[(k - 1) * factor + 1]],
                           !.shape = <<m, data.shape[2], data.shape[3]>>])
    ELSE IF ndim(data) = 2 THEN Ok(data)
    ELSE Raise("ValueError")

\* --------------------------------------------------------------- blob store
Put(st, key, obj) == [k \in (DOMAIN st) \cup {key} |-> IF k = key THEN obj ELSE st[k]]

\* np.save: a container recording shape and dtype
NpyObj(arr) == [fmt |-> "npy", arr |-> arr]

\* ndarray.tobytes(): the element bytes only, no header
RawObj(arr) == [fmt |-> "raw", bytes |-> arr.imgs]

JsonObj(doc) == [fmt |-> "json", doc |-> doc]

\* first of NPZ_IMAGE_KEYS present in the archive, 0 if none
FirstImageKey(members) ==
    LET hits == {i \in 1..Len(NPZ_IMAGE_KEYS) : NPZ_IMAGE_KEYS[i] \in DOMAIN members}
    IN IF hits = {} THEN 0 ELSE CHOOSE i \in hits : \A j \in hits : i <= j

\* variant: an archive without a recognized name yields its first member
load_array_from_s3_AnyMember(st, key, getFail) ==
    IF getFail \/ key \notin DOMAIN st THEN Raise("ClientError")
    ELSE IF EndsWith(key, ".npz") THEN
        IF st[key].fmt # "npz" THEN Raise("KeyError")
        ELSE LET i == FirstImageKey(st[key].members)
             IN IF i = 0
                THEN Ok(st[key].members[CHOOSE m \in DOMAIN st[key].members : TRUE])
                ELSE Ok(st[key].members[NPZ_IMAGE_KEYS[i]])
    ELSE IF EndsWith(key, ".npy") THEN
        IF st[key].fmt = "npy" THEN Ok(st[key].arr) ELSE Raise("ValueError")
    ELSE Raise("ValueError")

load_array_from_s3(st, key, getFail) ==
    IF getFail \/ key \notin DOMAIN st THEN Raise("ClientError")
    ELSE IF EndsWith(key, ".npz") THEN
        IF st[key].fmt # "npz" THEN Raise("KeyError")
        ELSE LET i == FirstImageKey(st[key].members)
             IN IF i = 0 THEN Raise("KeyError")
                ELSE Ok(st[key].members[NPZ_IMAGE_KEYS[i]])
    ELSE IF EndsWith(key, ".npy") THEN
        \* np.load needs the .npy header; header-less bytes do not parse
        IF st[key].fmt = "npy" THEN Ok(st[key].arr) ELSE Raise("ValueError")
    ELSE Raise("ValueError")

\* ---------------------------------------------------------------- previews
to_uint8(img) == [img EXCEPT !.ops = Append(@, "uint8")]

PngObj(img) == [fmt |-> "png", img |-> to_uint8(img)]

ZipObj(entries, disposition) ==
    [fmt |-> "zip", entries |-> entries, disposition |-> disposition]

\* arr[None, ...] for a single image
AsBatch(arr) == IF ndim(arr) = 2 THEN [arr EXCEPT !.shape = <<1>> \o arr.shape] ELSE arr

\* the store after the loop of write_pngs_to_s3_prefix has put images 0..k-1
RECURSIVE PutPngs(_, _, _, _)
PutPngs(st, arr, prefix, k) ==
    IF k = 0 THEN st
    ELSE Put(PutPngs(st, arr, prefix, k - 1),
             prefix \o Fmt4(k - 1) \o ".png", PngObj(arr.imgs[k]))

PngKeys(prefix, k) == [i \in 1..k |-> prefix \o Fmt4(i - 1) \o ".png"]

\* variant: every image of the batch is exported
write_pngs_to_s3_prefix_Uncapped(st, arr0, prefix, max_count, failAt) ==
    LET arr == AsBatch(arr0)
    IN IF ndim(arr) # 3
       THEN [ok |-> FALSE, store |-> st, count |-> 0, writes |-> <<>>]
       ELSE [ok |-> TRUE, store |-> PutPngs(st, arr, prefix, arr.shape[1]),
             count |-> arr.shape[1], writes |-> PngKeys(prefix, arr.shape[1])]

\* failAt: index of the image whose put raises, -1 when every put succeeds
write_pngs_to_s3_prefix(st, arr0, prefix, max_count, failAt) ==
    LET arr == AsBatch(arr0)
    IN IF ndim(arr) # 3
       THEN [ok |-> FALSE, store |-> st, count |-> 0, writes |-> <<>>]
       ELSE LET n == Min(arr.shape[1], max_count)
            IN IF failAt >= 0 /\ failAt < n
               THEN [ok |-> FALSE, store |-> PutPngs(st, arr, prefix, failAt),
                     count |-> 0, writes |-> PngKeys(prefix, failAt)]
               ELSE [ok |-> TRUE, store |-> PutPngs(st, arr, prefix, n),
                     count |-> n, writes |-> PngKeys(prefix, n)]

\* buildFail: PNG encoding or the in-memory archive raises
make_zip_of_pngs(arr0, max_count, buildFail) ==
    LET arr == AsBatch(arr0)
    IN IF ndim(arr) # 3 \/ buildFail
       THEN [ok |-> FALSE, entries |-> <<>>]
       ELSE LET n == Min(arr.shape[1], max_count)
            IN [ok |-> TRUE,
                entries |-> [i \in 1..n |-> [name |-> Fmt4(i - 1) \o ".png",
                                             png |-> PngObj(arr.imgs[i])]]]

\* ------------------------------------------------------- Preprocess Stage
\* faults: which blob-store call (or archive build) of the invocation raises
NoFaults ==
    [get |-> FALSE, save |-> FALSE, status |-> FALSE, png |-> -1,
     zipBuild |-> FALSE, zipPut |-> FALSE, status2 |-> FALSE]

NoResp == [statusCode |-> 0, body |-> [error |-> "", details |-> ""]]

ErrResp(code, error, details) ==
    [statusCode |-> code, body |-> [error |-> error, details |-> details]]

Opts(d, n, r) == [denoise |-> d, normalize |-> n, resample |-> r]

\* variant: the run identifier is not used to find the input
PreResolveKey_NoInherit(run_id, source_key) ==
    IF ~Truthy(source_key) THEN DEFAULT_RAW_KEY ELSE source_key

\* lines 166-172: the effective source key
PreResolveKey(run_id, source_key) ==
    LET sk == IF Truthy(run_id) /\ ~Truthy(source_key)
              THEN "work/" \o run_id \o "/digital_twin.npy"
              ELSE source_key
    IN IF ~Truthy(sk) THEN DEFAULT_RAW_KEY ELSE sk

\* the outcome of one transform call, with the list of transforms that ran
Ran(res, applied, name) ==
    [ok |-> res.ok, val |-> res.val, err |-> res.err,
     applied |-> IF res.ok THEN Append(applied, name) ELSE applied]

\* lines 188-189
ThenDenoise(data, d) ==
    IF d THEN Ran(denoise(data), <<>>, "denoise")
    ELSE [ok |-> TRUE, val |-> data, err |-> "", applied |-> <<>>]

\* lines 190-191; skipped once an earlier transform has raised
ThenNormalize(t, n) ==
    IF ~t.ok \/ ~n THEN t ELSE Ran(normalize(t.val), t.applied, "normalize")

\* variant: a resample that raises is swallowed and the data kept as it was
ThenResample_Lenient(t, r) ==
    IF ~t.ok \/ ~r THEN t
    ELSE IF resample(t.val, 2).ok THEN Ran(resample(t.val, 2), t.applied, "resample")
    ELSE t

\* lines 192-193; skipped once an earlier transform has raised
ThenResample(t, r) ==
    IF ~t.ok \/ ~r THEN t ELSE Ran(resample(t.val, 2), t.applied, "resample")

\* variant: the batch is thinned before the other transforms run
ApplyTransforms_ResampleFirst(data, d, n, r) ==
    IF r /\ resample(data, 2).ok
    THEN Ran(ThenNormalize(ThenDenoise(resample(data, 2).val, d), n),
             ThenNormalize(ThenDenoise(resample(data, 2).val, d), n).applied, "resample")
    ELSE ThenResample(ThenNormalize(ThenDenoise(data, d), n), r)

\* lines 186-193: the transform chain; applied lists the transforms that ran
ApplyTransforms(data, d, n, r) ==
    ThenResample(ThenNormalize(ThenDenoise(data, d), n), r)

\* lines 276-294
PreResponse(run_id, status_obj, processed_key) ==
    LET base == [run_id |-> run_id,
                 message |-> "Run " \o run_id \o " completed. Output at s3://"
                             \o processed_key,
                 options |-> status_obj.options,
                 output_key |-> processed_key]
        r1 == IF "processed_png_prefix" \in DOMAIN status_obj
              THEN base @@ [processed_png_prefix |-> status_obj.processed_png_prefix,
                            processed_png_count |-> status_obj.processed_png_count]
              ELSE base
        r2 == IF "processed_zip_key" \in DOMAIN status_obj
              THEN r1 @@ [processed_zip_key |-> status_obj.processed_zip_key]
              ELSE r1
    IN [statusCode |-> 200, body |-> r2]

\* lines 204-206: the run identifier of this invocation
PreRunId(req_run_id, gen) == IF ~Truthy(req_run_id) THEN gen ELSE req_run_id

\* a step of a handler: the store it leaves, whether an exception leaves the
\* step, the keys it has put, and the status document so far
Step(st, raised, writes, status_obj) ==
    [store |-> st, raised |-> raised, writes |-> writes, status_obj |-> status_obj]

\* save_npy_to_s3 (lines 56-61), called at line 211; raises when the put fails
PreSaveProcessed(st, f, processed_key, data, status_obj) ==
    IF f.save THEN Step(st, TRUE, <<>>, status_obj)
    ELSE Step(Put(st, processed_key, NpyObj(data)), FALSE, <<processed_key>>, status_obj)

\* variant: the PNG export is not guarded
PreExportPng_Unguarded(st, req, f, run_id, data, status_obj) ==
    IF ~req.export_png THEN Step(st, FALSE, <<>>, status_obj)
    ELSE LET preview_prefix == "work/" \o run_id \o "/processed_png/"
             png == write_pngs_to_s3_prefix(st, data, preview_prefix, MAX_PREVIEW, f.png)
         IN Step(png.store, ~png.ok, png.writes,
                 IF png.ok
                 THEN status_obj @@ [processed_png_prefix |-> preview_prefix,
                                     processed_png_count |-> png.count]
                 ELSE status_obj)

\* lines 236-245: preview PNGs, any exception swallowed
PreExportPng(st, req, f, run_id, data, status_obj) ==
    IF ~req.export_png THEN Step(st, FALSE, <<>>, status_obj)
    ELSE LET preview_prefix == "work/" \o run_id \o "/processed_png/"
             png == write_pngs_to_s3_prefix(st, data, preview_prefix, MAX_PREVIEW, f.png)
         IN Step(png.store, FALSE, png.writes,
                 IF png.ok
                 THEN status_obj @@ [processed_png_prefix |-> preview_prefix,
                                     processed_png_count |-> png.count]
                 ELSE status_obj)

\* lines 247-262: preview archive, any exception swallowed
PreExportZip(st, req, f, run_id, data, status_obj) ==
    IF ~req.export_zip THEN Step(st, FALSE, <<>>, status_obj)
    ELSE LET zip == make_zip_of_pngs(data, MAX_PREVIEW, f.zipBuild)
             zip_key == "work/" \o run_id \o "/processed_preproc.zip"
         IN IF zip.ok /\ ~f.zipPut
            THEN Step(Put(st, zip_key,
                          ZipObj(zip.entries, "attachment; filename=\""
                                              \o run_id \o "_preproc.zip\"")),
                      FALSE, <<zip_key>>, status_obj @@ [processed_zip_key |-> zip_key])
            ELSE Step(st, FALSE, <<>>, status_obj)

\* variant: the status record is filed outside the run namespace
PreWriteStatus_Flat(st, f, run_id, status_obj) ==
    LET status_key == "work/status_" \o run_id \o ".json"
    IN IF f.status THEN Step(st, FALSE, <<>>, status_obj)
       ELSE Step(Put(st, status_key, JsonObj(status_obj)), FALSE, <<status_key>>, status_obj)

\* lines 264-274: status.json, any exception swallowed
PreWriteStatus(st, f, run_id, status_obj) ==
    LET status_key == "work/" \o run_id \o "/status.json"
    IN IF f.status THEN Step(st, FALSE, <<>>, status_obj)
       ELSE Step(Put(st, status_key, JsonObj(status_obj)), FALSE, <<status_key>>, status_obj)

Result(st, raised, resp, writes, source_key, run_id, applied, data) ==
    [store |-> st, raised |-> raised, resp |-> resp, writes |-> writes,
     source_key |-> source_key, run_id |-> run_id, applied |-> applied, data |-> data]

\* a step run after the steps in prev: the puts accumulate in order
Then(prev, next) == [next EXCEPT !.writes = prev.writes \o @]

\* an exception that no handler block catches leaves the handler
Escaped(s, source_key, run_id, applied, data) ==
    Result(s.store, TRUE, NoResp, s.writes, source_key, run_id, applied, data)

\* lines 276-294: the 200 response after the status step
PreReturn(ws, source_key, run_id, data, applied) ==
    IF ws.raised THEN Escaped(ws, source_key, run_id, applied, data)
    ELSE Result(ws.store, FALSE,
                PreResponse(run_id, ws.status_obj, "work/" \o run_id \o "/processed.npy"),
                ws.writes, source_key, run_id, applied, data)

\* lines 264-294: status.json, then the response
PreFinish(zp, req, f, source_key, run_id, data, applied) ==
    IF zp.raised THEN Escaped(zp, source_key, run_id, applied, data)
    ELSE PreReturn(Then(zp, PreWriteStatus(zp.store, f, run_id, zp.status_obj)),
                   source_key, run_id, data, applied)

\* lines 247-294
PreAfterPng(pg, req, f, source_key, run_id, data, applied) ==
    IF pg.raised THEN Escaped(pg, source_key, run_id, applied, data)
    ELSE PreFinish(Then(pg, PreExportZip(pg.store, req, f, run_id, data, pg.status_obj)),
                   req, f, source_key, run_id, data, applied)

\* lines 210-294: the failed save is caught and answered with 500
PreAfterSave(sv, req, f, source_key, run_id, data, applied) ==
    IF sv.raised
    THEN Result(sv.store, FALSE,
                ErrResp(500, "Failed to save processed.npy", "ClientError"),
                sv.writes, source_key, run_id, applied, data)
    ELSE PreAfterPng(Then(sv, PreExportPng(sv.store, req, f, run_id, data, sv.status_obj)),
                     req, f, source_key, run_id, data, applied)

\* variant: the status record keeps the source_key field of the request
PrePersistAs_RequestKey(st, req, f, source_key, run_id, data, applied) ==
    PreAfterSave(
        PreSaveProcessed(st, f, "work/" \o run_id \o "/processed.npy", data,
            [status |-> "completed", recipe |-> req.recipe,
             options |-> Opts(req.denoise, req.normalize, req.resample),
             source_key |-> req.source_key,
             output_key |-> "work/" \o run_id \o "/processed.npy"]),
        req, f, source_key, run_id, data, applied)

\* lines 208-294 under the run identifier of this invocation
PrePersistAs(st, req, f, source_key, run_id, data, applied) ==
    PreAfterSave(
        PreSaveProcessed(st, f, "work/" \o run_id \o "/processed.npy", data,
            [status |-> "completed", recipe |-> req.recipe,
             options |-> Opts(req.denoise, req.normalize, req.resample),
             source_key |-> source_key,
             output_key |-> "work/" \o run_id \o "/processed.npy"]),
        req, f, source_key, run_id, data, applied)

\* lines 204-294: persist output, previews, status; build the response
PrePersist(st, req, f, gen, source_key, data, applied) ==
    PrePersistAs(st, req, f, source_key, PreRunId(req.run_id, gen), data, applied)

\* lines 186-294
PreAfterLoad(st, req, f, gen, source_key, tr) ==
    IF ~tr.ok
    THEN Result(st, FALSE, ErrResp(500, "Preprocessing failed", tr.err),
                <<>>, source_key, req.run_id, tr.applied, NoArray)
    ELSE PrePersist(st, req, f, gen, source_key, tr.val, tr.applied)

\* lines 174-294
PreLoaded(st, req, f, gen, source_key, ld) ==
    IF ~ld.ok
    THEN Result(st, FALSE,
                ErrResp(400, "Failed to read input from s3://" \o source_key, ld.err),
                <<>>, source_key, req.run_id, <<>>, NoArray)
    ELSE PreAfterLoad(st, req, f, gen, source_key,
                      ApplyTransforms(ld.val, req.denoise, req.normalize, req.resample))

\* lines 166-294
PreFrom(st, req, f, gen, source_key) ==
    PreLoaded(st, req, f, gen, source_key, load_array_from_s3(st, source_key, f.get))

\* ms_latest_outputs.handler on a parsed request
PreHandler(st, req, f, gen) ==
    PreFrom(st, req, f, gen, PreResolveKey(req.run_id, req.source_key))

\* -------------------------------------------------------- Synthesis Stage
\* variant: the explicit key is tried before the run identifier
SynResolveKey_ExplicitFirst(from_run_id, source_key, input_key) ==
    IF Truthy(source_key) THEN source_key
    ELSE IF Truthy(from_run_id) THEN "work/" \o from_run_id \o "/processed.npy"
    ELSE IF Truthy(input_key) THEN input_key
    ELSE DEFAULT_RAW_KEY

\* lines 39-48: the effective source key
SynResolveKey(from_run_id, source_key, input_key) ==
    IF Truthy(from_run_id) THEN "work/" \o from_run_id \o "/processed.npy"
    ELSE IF Truthy(source_key) THEN source_key
    ELSE IF Truthy(input_key) THEN input_key
    ELSE DEFAULT_RAW_KEY

\* lines 50-66: the inline loader of the synthesis handler
SynLoad(st, key, getFail) ==
    IF getFail \/ key \notin DOMAIN st THEN Raise("ClientError")
    ELSE IF EndsWith(key, ".npz") THEN
        IF st[key].fmt # "npz" THEN Raise("KeyError")
        ELSE LET i == FirstImageKey(st[key].members)
             IN IF i = 0 THEN Raise("KeyError")
                ELSE Ok(st[key].members[NPZ_IMAGE_KEYS[i]])
    ELSE IF EndsWith(key, ".npy") THEN
        IF st[key].fmt = "npy" THEN Ok(st[key].arr) ELSE Raise("ValueError")
    ELSE Raise("ValueError")

\* variant: the samples are kept as drawn, in float64
MakeTwin_NoCast(data, seed) ==
    IF ndim(data) = 3 \/ ndim(data) = 2
    THEN Ok([data EXCEPT !.imgs = OpAll(data, "twin" \o ToString(seed)),
                         !.dtype = "float64"])
    ELSE Raise("ValueError")

\* lines 80-92: Gaussian twin of the same shape, cast to the source dtype;
\* seed stands for the draw of the random generator
MakeTwin(data, seed) ==
    IF ndim(data) = 3 \/ ndim(data) = 2
    THEN Ok([data EXCEPT !.imgs = OpAll(data, "twin" \o ToString(seed))])
    ELSE Raise("ValueError")

\* lines 181-191
SynResponse(run_id, twin_key, status_key, resolved_key) ==
    [statusCode |-> 200,
     body |-> [run_id |-> run_id,
               message |-> "Generated digital twin for " \o resolved_key
                           \o ". Output at s3://" \o twin_key,
               digital_twin_key |-> twin_key,
               status_key |-> status_key]]

\* variant: the twin is filed under the preprocess output name
SynPutTwin_ProcessedName(st, f, run_id, twin, status_obj) ==
    LET twin_key == "work/" \o run_id \o "/processed.npy"
    IN IF f.save THEN Step(st, TRUE, <<>>, status_obj)
       ELSE Step(Put(st, twin_key, RawObj(twin)), FALSE, <<twin_key>>, status_obj)

\* lines 104-110: the twin is put as twin.tobytes(); not guarded
SynPutTwin(st, f, run_id, twin, status_obj) ==
    LET twin_key == "work/" \o run_id \o "/digital_twin.npy"
    IN IF f.save THEN Step(st, TRUE, <<>>, status_obj)
       ELSE Step(Put(st, twin_key, RawObj(twin)), FALSE, <<twin_key>>, status_obj)

\* lines 112-125: status.json; not guarded
SynPutStatus(st, f, run_id, status_obj) ==
    LET status_key == "work/" \o run_id \o "/status.json"
    IN IF f.status THEN Step(st, TRUE, <<>>, status_obj)
       ELSE Step(Put(st, status_key, JsonObj(status_obj)), FALSE, <<status_key>>, status_obj)

\* lines 130-178: archive of preview PNGs and status update, any exception swallowed
SynExportZip(st, req, f, run_id, twin, status_obj) ==
    IF ~req.export_png THEN Step(st, FALSE, <<>>, status_obj)
    ELSE LET zip_key == "work/" \o run_id \o "/synthetic.zip"
             status_key == "work/" \o run_id \o "/status.json"
             arr == AsBatch(twin)
             count == Min(arr.shape[1], MAX_PREVIEW)
             entries == [i \in 1..count |-> [name |-> Fmt4(i - 1) \o ".png",
                                             png |-> PngObj(arr.imgs[i])]]
             st1 == Put(st, zip_key,
                        ZipObj(entries, "attachment; filename=\""
                                        \o run_id \o "_synthetic.zip\""))
             status1 == status_obj @@ [digital_twin_zip |-> zip_key]
         IN IF f.zipBuild \/ f.zipPut THEN Step(st, FALSE, <<>>, status_obj)
            ELSE IF f.status2 THEN Step(st1, FALSE, <<zip_key>>, status1)
            ELSE Step(Put(st1, status_key, JsonObj(status1)), FALSE,
                      <<zip_key, status_key>>, status1)

\* lines 181-191: the 200 response after the archive step
SynReturn(zp, run_id, resolved_key, twin) ==
    IF zp.raised THEN Escaped(zp, resolved_key, run_id, <<"twin">>, twin)
    ELSE Result(zp.store, FALSE,
                SynResponse(run_id, "work/" \o run_id \o "/digital_twin.npy",
                            "work/" \o run_id \o "/status.json", resolved_key),
                zp.writes, resolved_key, run_id, <<"twin">>, twin)

\* lines 127-191
SynAfterStatus(ws, req, f, run_id, resolved_key, twin) ==
    IF ws.raised THEN Escaped(ws, resolved_key, run_id, <<"twin">>, twin)
    ELSE SynReturn(Then(ws, SynExportZip(ws.store, req, f, run_id, twin, ws.status_obj)),
                   run_id, resolved_key, twin)

\* lines 112-191
SynAfterTwin(tw, req, f, run_id, resolved_key, twin) ==
    IF tw.raised THEN Escaped(tw, resolved_key, run_id, <<"twin">>, twin)
    ELSE SynAfterStatus(Then(tw, SynPutStatus(tw.store, f, run_id, tw.status_obj)),
                        req, f, run_id, resolved_key, twin)

\* lines 103-191: persist twin and status, optional archive, response
SynPersist(st, req, f, run_id, resolved_key, twin) ==
    SynAfterTwin(
        SynPutTwin(st, f, run_id, twin,
            [status |-> "completed", recipe |-> req.recipe,
             input_key |-> req.input_key, source_key |-> req.source_key,
             from_run_id |-> req.run_id,
             digital_twin_key |-> "work/" \o run_id \o "/digital_twin.npy"]),
        req, f, run_id, resolved_key, twin)

\* lines 78-191
SynAfterLoad(st, req, f, run_id, resolved_key, tw) ==
    IF ~tw.ok
    THEN Result(st, FALSE, ErrResp(500, "Digital twin generation failed", tw.err),
                <<>>, resolved_key, run_id, <<>>, NoArray)
    ELSE SynPersist(st, req, f, run_id, resolved_key, tw.val)

\* lines 67-191
SynLoaded(st, req, f, run_id, resolved_key, ld, seed) ==
    IF ~ld.ok
    THEN Result(st, FALSE,
                ErrResp(400, "Failed to read input from s3://" \o resolved_key, ld.err),
                <<>>, resolved_key, run_id, <<>>, NoArray)
    ELSE SynAfterLoad(st, req, f, run_id, resolved_key, MakeTwin(ld.val, seed))

\* lines 50-191
SynFrom(st, req, f, run_id, resolved_key, seed) ==
    SynLoaded(st, req, f, run_id, resolved_key, SynLoad(st, resolved_key, f.get), seed)

\* variant: a run identifier given in the request is reused for the outputs
SynHandler_ReuseRunId(st, req, f, gen, seed) ==
    SynFrom(st, req, f, IF Truthy(req.run_id) THEN req.run_id ELSE gen,
            SynResolveKey(req.run_id, req.source_key, req.input_key), seed)

\* ms_start_generation.handler on a parsed request; gen is the identifier
\* generated at line 16
SynHandler(st, req, f, gen, seed) ==
    SynFrom(st, req, f, gen, SynResolveKey(req.run_id, req.source_key, req.input_key), seed)

\* ---------------------------------------------------------- pipeline driver
PreReq(run_id, source_key, d, n, r, export_png, export_zip, recipe) ==
    [run_id |-> run_id, source_key |-> source_key, denoise |-> d, normalize |-> n,
     resample |-> r, export_png |-> export_png, export_zip |-> export_zip,
     recipe |-> recipe]

SynReq(run_id, source_key, input_key, recipe, export_png) ==
    [run_id |-> run_id, source_key |-> source_key, input_key |-> input_key,
     recipe |-> recipe, export_png |-> export_png]

\* invoke_api: raise_for_status raises on a 4xx/5xx reply; an exception that
\* escapes the lambda reaches the client as a 5xx reply
HttpFails(res) == res.raised \/ res.resp.statusCode >= 400

NoResult ==
    [store |-> <<>>, raised |-> FALSE, resp |-> NoResp, writes |-> <<>>,
     source_key |-> None, run_id |-> None, applied |-> <<>>, data |-> NoArray]

PipeOutcome(pc, printed, error, st, calls, pre_req, pre, syn_req, syn) ==
    [pc |-> pc, printed |-> printed, error |-> error, store |-> st, calls |-> calls,
     pre_req |-> pre_req, pre |-> pre, syn_req |-> syn_req, syn |-> syn]

\* variant: both replies are printed only after the synthesis call returned
PipeAfterSyn_PrintAtEnd(pre_req, pre, syn_req, syn) ==
    IF HttpFails(syn)
    THEN PipeOutcome("failed", <<>>, "HTTPError /synthesis",
                     syn.store, 2, pre_req, pre, syn_req, syn)
    ELSE PipeOutcome("done", <<pre.resp.body, syn.resp.body>>, "",
                     syn.store, 2, pre_req, pre, syn_req, syn)

\* lines 236-238: the synthesis reply
PipeAfterSyn(pre_req, pre, syn_req, syn) ==
    IF HttpFails(syn)
    THEN PipeOutcome("failed", <<pre.resp.body>>, "HTTPError /synthesis",
                     syn.store, 2, pre_req, pre, syn_req, syn)
    ELSE PipeOutcome("done", <<pre.resp.body, syn.resp.body>>, "",
                     syn.store, 2, pre_req, pre, syn_req, syn)

\* lines 231-236: the synthesis call scoped to the returned run identifier
PipeSynthesis(pre_req, pre, syn_req, f2, gen2, seed) ==
    PipeAfterSyn(pre_req, pre, syn_req, SynHandler(pre.store, syn_req, f2, gen2, seed))

\* variant: the synthesis call does not carry the returned run identifier
PipeAfterPre_Unscoped(pre_req, pre, export_png, f2, gen2, seed) ==
    IF HttpFails(pre)
    THEN PipeOutcome("failed", <<>>, "HTTPError /preprocess", pre.store, 1,
                     pre_req, pre, SynReq(None, None, None, "{}", FALSE), NoResult)
    ELSE PipeSynthesis(pre_req, pre, SynReq(None, None, None, "{}", export_png),
                       f2, gen2, seed)

\* lines 228-238: the preprocess reply
PipeAfterPre(pre_req, pre, export_png, f2, gen2, seed) ==
    IF HttpFails(pre)
    THEN PipeOutcome("failed", <<>>, "HTTPError /preprocess", pre.store, 1,
                     pre_req, pre, SynReq(None, None, None, "{}", FALSE), NoResult)
    ELSE PipeSynthesis(pre_req, pre,
                       SynReq(pre.resp.body.run_id, None, None, "{}", export_png),
                       f2, gen2, seed)

\* lines 228-238
PipeCall(st, pre_req, export_png, f1, f2, gen1, gen2, seed) ==
    PipeAfterPre(pre_req, PreHandler(st, pre_req, f1, gen1), export_png, f2, gen2, seed)

\* main(), command "pipeline" (lines 218-238): preprocess, then synthesis
\* scoped to the returned run identifier
Pipeline(st, args, f1, f2, gen1, gen2, seed) ==
    PipeCall(st,
             PreReq(None, args.input_key, args.denoise, args.normalize,
                    args.resample, args.export_png, FALSE, "{}"),
             args.export_png, f1, f2, gen1, gen2, seed)

\* ------------------------------------------------------------ initial data
Batch(first, n, dtype) ==
    [shape |-> <<n, 28, 28>>, dtype |-> dtype, imgs |-> [k \in 1..n |-> Img(first + k)]]

RawStore ==
    [k \in {"raw/chestmnist.npz", "raw/scan.npy", "raw/vol.npy", "raw/empty.npy",
            "raw/labels.npz", "raw/notes.txt"} |->
       CASE k = "raw/chestmnist.npz" ->
              [fmt |-> "npz",
               members |-> [train_images |-> Batch(0, BatchN, "uint8"),
                            val_images |-> Batch(100, 1, "uint8"),
                            train_labels |-> [shape |-> <<BatchN>>, dtype |-> "uint8",
                                              imgs |-> <<Img(900)>>]]]
         [] k = "raw/scan.npy" ->
              NpyObj([shape |-> <<28, 28>>, dtype |-> "float64", imgs |-> <<Img(201)>>])
         [] k = "raw/vol.npy" ->
              NpyObj([shape |-> <<1, 2, 28, 28>>, dtype |-> "uint8",
                      imgs |-> <<Img(301), Img(302)>>])
         [] k = "raw/empty.npy" -> NpyObj(Batch(400, 0, "uint8"))
         [] k = "raw/labels.npz" ->
              [fmt |-> "npz",
               members |-> [labels |-> [shape |-> <<BatchN>>, dtype |-> "uint8",
                                        imgs |-> <<Img(900)>>]]]
         [] OTHER -> [fmt |-> "text"]]

\* ------------------------------------------------------------------ inputs
CallerRunIds == {"A"}

Generated == {GenRunId(i) : i \in 1..clock}

\* runs whose namespace holds a twin / a processed array
TwinRuns == {r \in Generated \cup CallerRunIds :
               ("work/" \o r \o "/digital_twin.npy") \in DOMAIN store}

ProcessedRuns == {r \in Generated \cup CallerRunIds :
                    ("work/" \o r \o "/processed.npy") \in DOMAIN store}

SourceKeys == {None, "raw/scan.npy", "raw/vol.npy", "raw/labels.npz",
               "raw/notes.txt", "raw/missing.npy"}

Fault(names, pngAt) ==
    [get |-> "get" \in names, save |-> "save" \in names,
     status |-> "status" \in names, png |-> pngAt,
     zipBuild |-> "zipBuild" \in names, zipPut |-> "zipPut" \in names,
     status2 |-> "status2" \in names]

Case(req, f) == [req |-> req, f |-> f]

PreCases ==
    \* every source, with and without a caller run identifier
       {Case(PreReq(rid, sk, TRUE, FALSE, TRUE, FALSE, FALSE, "{}"), NoFaults) :
            rid \in {None, "A"}, sk \in SourceKeys}
    \* inherit the twin of an earlier synthesis run
  \cup {Case(PreReq(rid, None, FALSE, FALSE, FALSE, FALSE, FALSE, "{}"), NoFaults) :
            rid \in TwinRuns \cup {None, "A"}}
    \* every combination of the three transform flags on the default dataset
  \cup {Case(PreReq(None, None, d, n, r, FALSE, FALSE, "{}"), NoFaults) :
            d \in BOOLEAN, n \in BOOLEAN, r \in BOOLEAN}
    \* a rank-4 input: normalize runs, resample raises; stored untouched or normalized
  \cup {Case(PreReq(None, "raw/vol.npy", FALSE, TRUE, TRUE, TRUE, TRUE, "{}"), NoFaults),
        Case(PreReq(None, "raw/vol.npy", FALSE, FALSE, FALSE, TRUE, TRUE, "{}"), NoFaults),
        Case(PreReq(None, "raw/vol.npy", FALSE, TRUE, FALSE, FALSE, FALSE, "{}"), NoFaults),
        Case(PreReq(None, "raw/empty.npy", FALSE, TRUE, TRUE, FALSE, FALSE, "{}"), NoFaults),
        Case(PreReq(None, "raw/empty.npy", TRUE, TRUE, FALSE, FALSE, FALSE, "{}"), NoFaults)}
    \* previews requested, blob-store calls failing
  \cup {Case(PreReq("A", "raw/chestmnist.npz", FALSE, FALSE, FALSE, TRUE, TRUE, "{note}"),
             Fault(names, pngAt)) :
            names \in SUBSET {"zipPut", "status"}, pngAt \in {-1, 1}}
  \cup {Case(PreReq(None, None, FALSE, TRUE, FALSE, TRUE, TRUE, "{note}"),
             Fault(names, -1)) :
            names \in {{"get"}, {"save"}, {"zipBuild"}, {"status"}, {}}}
  \cup {Case(PreReq("A", "raw/chestmnist.npz", FALSE, FALSE, FALSE, TRUE, FALSE, "{}"), Fault({}, 0))}

Seeds == {1, 2}

SCase(req, f, seed) == [req |-> req, f |-> f, seed |-> seed]

SynCases ==
       {SCase(SynReq(rid, sk, ik, "{}", FALSE), NoFaults, 1) :
            rid \in ProcessedRuns \cup {None}, sk \in {None, "raw/scan.npy"},
            ik \in {None, "raw/vol.npy"}}
  \cup {SCase(SynReq(rid, sk, None, "{}", FALSE), NoFaults, 1) :
            rid \in {None, "A"},
            sk \in {"raw/labels.npz", "raw/notes.txt", "raw/missing.npy"}}
  \cup {SCase(SynReq(None, None, None, "{note}", TRUE), Fault(names, -1), seed) :
            names \in {{}, {"get"}, {"save"}, {"status"}, {"zipBuild"},
                       {"zipPut"}, {"status2"}},
            seed \in Seeds}

PipeArgs(input_key, d, n, r, export_png) ==
    [input_key |-> input_key, denoise |-> d, normalize |-> n, resample |-> r,
     export_png |-> export_png]

PCase(args, f1, f2) == [args |-> args, f1 |-> f1, f2 |-> f2]

PipeCases ==
       {PCase(PipeArgs(ik, d, FALSE, d, FALSE), NoFaults, NoFaults) :
            ik \in {"raw/chestmnist.npz", "raw/vol.npy", "raw/missing.npy"},
            d \in BOOLEAN}
  \cup {PCase(PipeArgs("raw/chestmnist.npz", FALSE, TRUE, FALSE, TRUE),
              NoFaults, Fault(names, -1)) :
            names \in {{}, {"get"}, {"save"}, {"status"}, {"zipPut"}}}
  \cup {PCase(PipeArgs("raw/scan.npy", FALSE, FALSE, FALSE, TRUE),
              Fault(names, -1), NoFaults) :
            names \in {{"save"}, {"status"}}}

\* ------------------------------------------------------------- the machine
NoInvocation ==
    [stage |-> "none", req |-> PreReq(None, None, FALSE, FALSE, FALSE, FALSE, FALSE, "{}"),
     f |-> NoFaults, seed |-> 0, pre |-> RawStore, out |-> NoResult]

\* seed: the draw of the random generator, 0 where none is made
Invocation(stage, req, f, seed, pre, out) ==
    [stage |-> stage, req |-> req, f |-> f, seed |-> seed, pre |-> pre, out |-> out]

Init ==
    /\ store = RawStore
    /\ clock = 0
    /\ last = NoInvocation
    /\ pipe = [pc |-> "idle", at |-> 0]
    /\ procs = <<>>

\* the blob store and the record of the invocation after a handler returned
Invoke(stage, req, f, seed, out) ==
    /\ store' = out.store
    /\ last' = Invocation(stage, req, f, seed, store, out)
    /\ clock' = clock + 1
    /\ UNCHANGED <<pipe, procs>>

\* one invocation of the Preprocess lambda
Preprocess ==
    /\ clock < MaxCalls
    /\ \E c \in PreCases :
         Invoke("preprocess", c.req, c.f, 0,
                PreHandler(store, c.req, c.f, GenRunId(clock + 1)))

\* one invocation of the Synthesis lambda
Synthesis ==
    /\ clock < MaxCalls
    /\ \E c \in SynCases :
         Invoke("synthesis", c.req, c.f, c.seed,
                SynHandler(store, c.req, c.f, GenRunId(clock + 1), c.seed))

\* the state after the driver's pipeline command ended with outcome p
Piped(p, c) ==
    /\ store' = p.store
    /\ clock' = clock + p.calls
    /\ pipe' = [pc |-> p.pc, printed |-> p.printed, error |-> p.error,
                calls |-> p.calls, pre |-> p.pre, syn |-> p.syn,
                at |-> clock + p.calls, args |-> c.args]
    /\ last' = IF p.calls = 1
               THEN Invocation("preprocess", p.pre_req, c.f1, 0, store, p.pre)
               ELSE Invocation("synthesis", p.syn_req, c.f2, 1, p.pre.store, p.syn)
    /\ UNCHANGED procs

\* one run of the driver's pipeline command
RunPipeline ==
    /\ clock + 2 <= MaxCalls
    /\ \E c \in PipeCases :
         Piped(Pipeline(store, c.args, c.f1, c.f2,
                        GenRunId(clock + 1), GenRunId(clock + 2), 1), c)

Next == Preprocess \/ Synthesis \/ RunPipeline

Spec == Init /\ [][Next]_vars

\* ------------------------------------------ the functions on drawn arrays
\* largest batch drawn; above MAX_PREVIEW so that the preview cap applies
MaxBatch == 34

\* arrays of rank 1 to 4; the rank-3 batches hold 0..MaxBatch images
UnitArrays ==
       {Batch(0, n, "uint8") : n \in 0..MaxBatch}
  \cup {[shape |-> <<28, 28>>, dtype |-> "float64", imgs |-> <<Img(1)>>],
        [shape |-> <<5>>, dtype |-> "uint8", imgs |-> <<Img(1)>>],
        [shape |-> <<1, 2, 28, 28>>, dtype |-> "uint8", imgs |-> <<Img(1), Img(2)>>]}

\* one call of a function: its name, argument, flags and result
Call(stage, arg, flags, res) == [stage |-> stage, arg |-> arg, flags |-> flags, res |-> res]

UnitInit ==
    /\ store = <<>>
    /\ clock = 0
    /\ pipe = [pc |-> "idle", at |-> 0]
    /\ last \in {Call("input", a, Opts(FALSE, FALSE, FALSE), Ok(a)) : a \in UnitArrays}
    /\ procs = <<>>

\* the state after the call: its record and the blob store it leaves
Applied(stage, flags, res, st) ==
    /\ last' = Call(stage, last.arg, flags, res)
    /\ store' = st
    /\ UNCHANGED <<clock, pipe, procs>>

UnitDenoise ==
    /\ last.stage = "input"
    /\ Applied("denoise", last.flags, denoise(last.arg), store)

UnitNormalize ==
    /\ last.stage = "input"
    /\ Applied("normalize", last.flags, normalize(last.arg), store)

UnitResample ==
    /\ last.stage = "input"
    /\ Applied("resample", last.flags, resample(last.arg, 2), store)

\* the transform chain of the handler under every combination of flags
UnitTransforms ==
    /\ last.stage = "input"
    /\ \E d \in BOOLEAN, n \in BOOLEAN, r \in BOOLEAN :
         Applied("transforms", Opts(d, n, r), ApplyTransforms(last.arg, d, n, r), store)

UnitPrefix == "work/u/processed_png/"

UnitWritePngs ==
    /\ last.stage = "input"
    /\ Applied("png", last.flags,
               write_pngs_to_s3_prefix(store, last.arg, UnitPrefix, MAX_PREVIEW, -1),
               write_pngs_to_s3_prefix(store, last.arg, UnitPrefix, MAX_PREVIEW, -1).store)

UnitMakeZip ==
    /\ last.stage = "input"
    /\ Applied("zip", last.flags, make_zip_of_pngs(last.arg, MAX_PREVIEW, FALSE), store)

\* the archive step of the synthesis handler on the twin of the drawn array
UnitSynZipStep(st, twin) ==
    SynExportZip(st, SynReq(None, None, None, "{}", TRUE), NoFaults, "u", twin,
                 [status |-> "completed"])

UnitSynZip ==
    /\ last.stage = "input"
    /\ MakeTwin(last.arg, 1).ok
    /\ Applied("synzip", last.flags,
               UnitSynZipStep(store, MakeTwin(last.arg, 1).val),
               UnitSynZipStep(store, MakeTwin(last.arg, 1).val).store)

UnitNext ==
    \/ UnitDenoise
    \/ UnitNormalize
    \/ UnitResample
    \/ UnitTransforms
    \/ UnitWritePngs
    \/ UnitMakeZip
    \/ UnitSynZip

UnitSpec == UnitInit /\ [][UnitNext]_vars

\* ----------------------------------- concurrent Preprocess invocations
\* one running invocation: its position in the handler, its local variables,
\* and the time of its put of processed.npy (0: not yet)
Proc(req) ==
    [pc |-> "load", req |-> req, run_id |-> None, source_key |-> None,
     data |-> NoArray, status_obj |-> [status |-> "none"], i |-> 0, putAt |-> 0,
     resp |-> NoResp]

\* requests that share the caller's run identifier
ConcReqs ==
    {PreReq("A", sk, d, FALSE, d, png, png, "{}") :
        sk \in {"raw/chestmnist.npz", "raw/scan.npy"}, d \in BOOLEAN, png \in BOOLEAN}

ConcInit ==
    /\ store = RawStore
    /\ clock = 0
    /\ last = NoInvocation
    /\ pipe = [pc |-> "idle", at |-> 0]
    /\ procs \in {<<Proc(a), Proc(b)>> : a \in ConcReqs, b \in ConcReqs}

\* lines 236-262: the step that follows, by the previews requested
AfterSave(req) == IF req.export_png THEN "png" ELSE IF req.export_zip THEN "zip" ELSE "status"
AfterPng(req) == IF req.export_zip THEN "zip" ELSE "status"

\* lines 186-206 after the array was read
ConcTransformed(pr, sk, tr) ==
    IF ~tr.ok
    THEN [pr EXCEPT !.pc = "done", !.source_key = sk,
                    !.resp = ErrResp(500, "Preprocessing failed", tr.err)]
    ELSE [pr EXCEPT !.pc = "save", !.source_key = sk, !.data = tr.val,
                    !.run_id = PreRunId(pr.req.run_id, "run_c")]

\* lines 174-206
ConcLoaded(pr, sk, ld) ==
    IF ~ld.ok
    THEN [pr EXCEPT !.pc = "done", !.source_key = sk,
                    !.resp = ErrResp(400, "Failed to read input from s3://" \o sk, ld.err)]
    ELSE ConcTransformed(pr, sk,
             ApplyTransforms(ld.val, pr.req.denoise, pr.req.normalize, pr.req.resample))

\* lines 166-206: one get_object, then the transforms on the local copy
ConcLoad(p) ==
    /\ procs[p].pc = "load"
    /\ procs' = [procs EXCEPT ![p] =
          ConcLoaded(@, PreResolveKey(@.req.run_id, @.req.source_key),
                     load_array_from_s3(store, PreResolveKey(@.req.run_id, @.req.source_key),
                                        FALSE))]
    /\ UNCHANGED <<store, clock, last, pipe>>

\* variant: an object already stored under the key is kept
ConcPutProcessed_KeepExisting(st, key, data) ==
    IF key \in DOMAIN st THEN st
    ELSE PreSaveProcessed(st, NoFaults, key, data, [status |-> "none"]).store

\* lines 209-211: one put_object of the whole array
ConcPutProcessed(st, key, data) ==
    PreSaveProcessed(st, NoFaults, key, data, [status |-> "none"]).store

\* lines 208-234
ConcSave(p) ==
    /\ procs[p].pc = "save"
    /\ store' = ConcPutProcessed(store, "work/" \o procs[p].run_id \o "/processed.npy",
                                 procs[p].data)
    /\ clock' = clock + 1
    /\ procs' = [procs EXCEPT ![p] =
          [@ EXCEPT !.pc = AfterSave(procs[p].req), !.putAt = clock + 1,
                    !.status_obj =
                       [status |-> "completed", recipe |-> procs[p].req.recipe,
                        options |-> Opts(procs[p].req.denoise, procs[p].req.normalize,
                                         procs[p].req.resample),
                        source_key |-> procs[p].source_key,
                        output_key |-> "work/" \o procs[p].run_id \o "/processed.npy"]]]
    /\ UNCHANGED <<last, pipe>>

\* lines 98-101: one iteration of the loop of write_pngs_to_s3_prefix
ConcPngPut(p) ==
    /\ procs[p].pc = "png"
    /\ ndim(AsBatch(procs[p].data)) = 3
    /\ procs[p].i < Min(AsBatch(procs[p].data).shape[1], MAX_PREVIEW)
    /\ store' = Put(store,
                    "work/" \o procs[p].run_id \o "/processed_png/"
                        \o Fmt4(procs[p].i) \o ".png",
                    PngObj(AsBatch(procs[p].data).imgs[procs[p].i + 1]))
    /\ clock' = clock + 1
    /\ procs' = [procs EXCEPT ![p].i = @ + 1]
    /\ UNCHANGED <<last, pipe>>

\* lines 237-245: the export returned its count, or raised and was swallowed
ConcPngEnd(p) ==
    /\ procs[p].pc = "png"
    /\ \/ ndim(AsBatch(procs[p].data)) # 3
       \/ procs[p].i >= Min(AsBatch(procs[p].data).shape[1], MAX_PREVIEW)
    /\ procs' = [procs EXCEPT ![p] =
          [@ EXCEPT !.pc = AfterPng(procs[p].req),
                    !.status_obj =
                       IF ndim(AsBatch(procs[p].data)) # 3 THEN @
                       ELSE @ @@ [processed_png_prefix |->
                                     "work/" \o procs[p].run_id \o "/processed_png/",
                                  processed_png_count |-> procs[p].i]]]
    /\ UNCHANGED <<store, clock, last, pipe>>

\* lines 247-262
ConcZip(p) ==
    /\ procs[p].pc = "zip"
    /\ store' = PreExportZip(store, procs[p].req, NoFaults, procs[p].run_id,
                             procs[p].data, procs[p].status_obj).store
    /\ clock' = clock + 1
    /\ procs' = [procs EXCEPT ![p] =
          [@ EXCEPT !.pc = "status",
                    !.status_obj = PreExportZip(store, procs[p].req, NoFaults,
                                                procs[p].run_id, procs[p].data,
                                                @).status_obj]]
    /\ UNCHANGED <<last, pipe>>

\* lines 264-294: status.json, then the response
ConcStatus(p) ==
    /\ procs[p].pc = "status"
    /\ store' = PreWriteStatus(store, NoFaults, procs[p].run_id, procs[p].status_obj).store
    /\ clock' = clock + 1
    /\ procs' = [procs EXCEPT ![p] =
          [@ EXCEPT !.pc = "done",
                    !.resp = PreResponse(procs[p].run_id, procs[p].status_obj,
                                         "work/" \o procs[p].run_id \o "/processed.npy")]]
    /\ UNCHANGED <<last, pipe>>

ConcNext ==
    \E p \in 1..2 :
        \/ ConcLoad(p)
        \/ ConcSave(p)
        \/ ConcPngPut(p)
        \/ ConcPngEnd(p)
        \/ ConcZip(p)
        \/ ConcStatus(p)

ConcSpec == ConcInit /\ [][ConcNext]_vars

\* ------------------------------------------- the agent's event stream
\* longest stream drawn
MaxEvents == 3

\* bytes are tokens: "a", "b", "c" are one-byte characters, "L" followed by
\* "T" is one two-byte character, a lone "L" or "T" is not valid UTF-8
ChunkBytes == {<<>>, <<"a">>, <<"b", "L">>, <<"T", "c">>, <<"L", "T">>}

\* the events of the completion stream: chunks with bytes, a chunk without
\* bytes, an empty chunk, and events of other types
StreamEvents ==
       {[chunk |-> [bytes |-> b]] : b \in ChunkBytes}
  \cup {[chunk |-> [attribution |-> "cite"]], [chunk |-> <<>>],
        [trace |-> [step |-> "plan"]], [returnControl |-> [id |-> "r"]]}

RECURSIVE StreamsOf(_)
StreamsOf(n) ==
    IF n = 0 THEN {<<>>}
    ELSE StreamsOf(n - 1)
         \cup {Append(es, e) : es \in {x \in StreamsOf(n - 1) : Len(x) = n - 1},
                               e \in StreamEvents}

\* bytes.decode("utf-8", errors="ignore")
RECURSIVE Decode(_)
Decode(b) ==
    IF b = <<>> THEN ""
    ELSE IF Head(b) = "L"
         THEN IF Len(b) >= 2 /\ b[2] = "T"
              THEN "U" \o Decode(SubSeq(b, 3, Len(b)))
              ELSE Decode(Tail(b))
    ELSE IF Head(b) = "T" THEN Decode(Tail(b))
    ELSE Head(b) \o Decode(Tail(b))

\* "".join(out)
RECURSIVE Join(_)
Join(out) == IF out = <<>> THEN "" ELSE Head(out) \o Join(Tail(out))

\* variant: every event with a chunk key is taken to hold bytes
AgentAppend_AnyChunk(out, event) ==
    IF "chunk" \in DOMAIN event
    THEN Append(out, IF "bytes" \in DOMAIN event.chunk
                     THEN Decode(event.chunk.bytes) ELSE "?")
    ELSE out

\* lines 94-96: chunk = event.get("chunk"); if chunk and "bytes" in chunk
AgentAppend(out, event) ==
    IF "chunk" \in DOMAIN event /\ DOMAIN event.chunk # {}
       /\ "bytes" \in DOMAIN event.chunk
    THEN Append(out, Decode(event.chunk.bytes))
    ELSE out

\* resp.get("completion"): absent, or a stream of events
AgentInit ==
    /\ store = <<>>
    /\ clock = 0
    /\ pipe = [pc |-> "idle", at |-> 0]
    /\ procs = <<>>
    /\ last \in {[stage |-> "agent", pc |-> "loop", present |-> pr, events |-> es,
                  rest |-> es, out |-> <<>>, reply |-> None] :
                    pr \in BOOLEAN, es \in StreamsOf(MaxEvents)}
    /\ last.present \/ last.events = <<>>

\* lines 92-96: one iteration of the loop over the stream
AgentEvent ==
    /\ last.stage = "agent" /\ last.pc = "loop"
    /\ last.present /\ last.rest # <<>>
    /\ last' = [last EXCEPT !.out = AgentAppend(last.out, Head(last.rest)),
                            !.rest = Tail(last.rest)]
    /\ UNCHANGED <<store, clock, pipe, procs>>

\* line 98: the stream is absent or exhausted
AgentReturn ==
    /\ last.stage = "agent" /\ last.pc = "loop"
    /\ ~last.present \/ last.rest = <<>>
    /\ last' = [last EXCEPT !.pc = "done", !.reply = Join(last.out)]
    /\ UNCHANGED <<store, clock, pipe, procs>>

AgentNext == AgentEvent \/ AgentReturn

AgentSpec == AgentInit /\ [][AgentNext]_vars

\* ------------------------------------------------- the event of a request
\* Python values of an event: None, a dict, a list, a number, and a str with
\* the document json.loads yields for it (NotJson where it raises)
NotJson == [type |-> "invalid"]
PyNone == [type |-> "NoneType"]
Dict(fields) == [type |-> "dict", fields |-> fields]
List(len) == [type |-> "list", len |-> len]
Number(val) == [type |-> "int", val |-> val]
Text(chars, doc) == [type |-> "str", chars |-> chars, doc |-> doc]

\* the truth value of a Python value
PyTruthy(v) ==
    CASE v.type = "NoneType" -> FALSE
      [] v.type = "str" -> v.chars # ""
      [] v.type = "dict" -> DOMAIN v.fields # {}
      [] v.type = "list" -> v.len > 0
      [] v.type = "int" -> v.val # 0
      [] OTHER -> TRUE

\* the condition under which the body is looked at
HasBody(event) ==
    /\ PyTruthy(event)
    /\ "body" \in DOMAIN event.fields
    /\ PyTruthy(event.fields.body)

\* a str body is decoded, an undecodable one becomes the empty dict; any other
\* body is taken as it is
Decoded(body) ==
    IF body.type # "str" THEN body
    ELSE IF body.doc = NotJson THEN Dict(<<>>)
    ELSE body.doc

\* dict.get
Get(d, k, default) == IF k \in DOMAIN d.fields THEN d.fields[k] ELSE default

\* the fields before the body is read
PreDefaults == [run_id |-> None, source_key |-> None, denoise |-> FALSE,
                normalize |-> FALSE, resample |-> FALSE, export_png |-> FALSE,
                export_zip |-> FALSE, recipe |-> "{}"]

\* the assignments from the body; on a value without get the first one
\* raises, the exception is swallowed and every field keeps its default
PreFields(body) ==
    IF body.type # "dict" THEN PreDefaults
    ELSE [run_id |-> Get(body, "run_id", None),
          source_key |-> Get(body, "source_key", None),
          denoise |-> (Get(body, "denoise", FALSE) = TRUE),
          normalize |-> (Get(body, "normalize", FALSE) = TRUE),
          resample |-> (Get(body, "resample", FALSE) = TRUE),
          export_png |-> (Get(body, "export_png", FALSE) = TRUE),
          export_zip |-> (Get(body, "export_zip", FALSE) = TRUE),
          recipe |-> Get(body, "recipe", "{}")]

\* the request fields of the Preprocess handler
PreParse(event) ==
    IF HasBody(event) THEN PreFields(Decoded(event.fields.body)) ELSE PreDefaults

\* variant: a body that is not a JSON object is rejected
PreOnEvent_Strict(st, event, f, gen) ==
    IF HasBody(event) /\ Decoded(event.fields.body).type # "dict"
    THEN Result(st, FALSE, ErrResp(400, "Bad request", "body"), <<>>, None, None,
                <<>>, NoArray)
    ELSE PreHandler(st, PreParse(event), f, gen)

\* ms_latest_outputs.handler on an event
PreOnEvent(st, event, f, gen) == PreHandler(st, PreParse(event), f, gen)

SynDefaults == [run_id |-> None, source_key |-> None, input_key |-> None,
                recipe |-> "{}", export_png |-> FALSE]

SynFields(body) ==
    IF body.type # "dict" THEN SynDefaults
    ELSE [run_id |-> Get(body, "run_id", None),
          source_key |-> Get(body, "source_key", None),
          input_key |-> Get(body, "input_key", None),
          recipe |-> Get(body, "recipe", "{}"),
          export_png |-> (Get(body, "export_png", FALSE) = TRUE)]

\* the request fields of the Synthesis handler
SynParse(event) ==
    IF HasBody(event) THEN SynFields(Decoded(event.fields.body)) ELSE SynDefaults

\* ms_start_generation.handler on an event
SynOnEvent(st, event, f, gen, seed) == SynHandler(st, SynParse(event), f, gen, seed)

\* bodies that carry no JSON object
BareBodies ==
    {PyNone, Text("", NotJson), Text(" ", NotJson), Text("{oops", NotJson),
     Text("run_id=A", NotJson), Text("[]", List(0)), Text("[\"A\"]", List(1)),
     Text("null", PyNone), Text("0", Number(0)), Text("7", Number(7)),
     Text("\"raw/scan.npy\"", Text("raw/scan.npy", NotJson)),
     Dict(<<>>), List(1)}

\* bodies that carry a JSON object
ObjectBodies ==
    {Text("{}", Dict(<<>>)),
     Text("{\"denoise\": true, \"source_key\": \"raw/scan.npy\"}",
          Dict([denoise |-> TRUE, source_key |-> "raw/scan.npy"])),
     Text("{\"run_id\": \"A\", \"recipe\": {\"note\": 1}, \"export_png\": true}",
          Dict([run_id |-> "A", recipe |-> "{note}", export_png |-> TRUE])),
     Text("{\"input_key\": \"raw/vol.npy\", \"normalize\": true, \"run_id\": null}",
          Dict([input_key |-> "raw/vol.npy", normalize |-> TRUE, run_id |-> None])),
     Dict([resample |-> TRUE, export_zip |-> TRUE, source_key |-> "raw/scan.npy"])}

Events ==
    {PyNone, Dict(<<>>), Dict([path |-> "/preprocess"])}
  \cup {Dict([body |-> b]) : b \in BareBodies \cup ObjectBodies}

\* the blob store with and without the default dataset
EventStores ==
    {RawStore, [k \in DOMAIN RawStore \ {DEFAULT_RAW_KEY} |-> RawStore[k]]}

EventFaults == {NoFaults, Fault({"get"}, -1), Fault({"save"}, -1), Fault({"status"}, -1)}

EventInit ==
    /\ store \in EventStores
    /\ clock = 0
    /\ pipe = [pc |-> "idle", at |-> 0]
    /\ procs = <<>>
    /\ last \in {[stage |-> "input", event |-> e, req |-> PreDefaults, f |-> f,
                  seed |-> 0, pre |-> store, out |-> NoResult] :
                    e \in Events, f \in EventFaults}

\* the state after a handler returned on the drawn event
Handled(stage, req, seed, out) ==
    /\ store' = out.store
    /\ last' = [stage |-> stage, event |-> last.event, req |-> req, f |-> last.f,
                seed |-> seed, pre |-> store, out |-> out]
    /\ clock' = clock + 1
    /\ UNCHANGED <<pipe, procs>>

HandlePreprocess ==
    /\ last.stage = "input"
    /\ Handled("preprocess", PreParse(last.event), 0,
               PreOnEvent(store, last.event, last.f, GenRunId(clock + 1)))

HandleSynthesis ==
    /\ last.stage = "input"
    /\ \E seed \in Seeds :
         Handled("synthesis", SynParse(last.event), seed,
                 SynOnEvent(store, last.event, last.f, GenRunId(clock + 1), seed))

EventNext == HandlePreprocess \/ HandleSynthesis

EventSpec == EventInit /\ [][EventNext]_vars

\* ============================================================== properties
Invoked == last.stage \in {"preprocess", "synthesis"}
IsPre == last.stage = "preprocess"
IsSyn == last.stage = "synthesis"
Returned200 == ~last.out.raised /\ last.out.resp.statusCode = 200
BothGiven == Truthy(last.req.source_key) /\ Truthy(last.req.run_id)

\* the primary output key of the last invocation
PrimaryKey ==
    IF IsPre THEN "work/" \o last.out.run_id \o "/processed.npy"
    ELSE "work/" \o last.out.run_id \o "/digital_twin.npy"

\* the output key a 200 response reports
ReportedKey ==
    IF IsPre THEN last.out.resp.body.output_key
    ELSE last.out.resp.body.digital_twin_key

\* the primary output was put by the last invocation
PrimaryWritten == last.out.writes # <<>> /\ last.out.writes[1] = PrimaryKey

\* C1 (as stated): in both stages a request with both source_key and run_id
\* loads the explicit key.
C1_ExplicitKeyWinsInBothStages ==
    (Invoked /\ BothGiven) => last.out.source_key = last.req.source_key

\* C1 (amended): with both source_key and run_id supplied, the Preprocess
\* Stage loads the explicit key, and the Synthesis Stage loads the key derived
\* from the run identifier, work/<run_id>/processed.npy.
C1_Precedence ==
    (Invoked /\ BothGiven) =>
        /\ IsPre => last.out.source_key = last.req.source_key
        /\ IsSyn => last.out.source_key = "work/" \o last.req.run_id \o "/processed.npy"

C1_Witness ==
    /\ IsSyn /\ BothGiven /\ Returned200
    /\ last.out.source_key # last.req.source_key

\* C2: every primary output array a stage persists is stored so that the
\* Array Codec load of that key succeeds and returns the same shape, element
\* type and values.
C2_PrimaryOutputRoundTrips ==
    (Invoked /\ Returned200) =>
        load_array_from_s3(store, ReportedKey, FALSE) = Ok(last.out.data)

\* C3: a status-record write that fails after the primary output was written
\* still ends in a 200 response carrying the run identifier and output key.
C3_StatusFailureAbsorbed ==
    (Invoked /\ last.f.status /\ PrimaryWritten) =>
        /\ Returned200
        /\ last.out.resp.body.run_id = last.out.run_id
        /\ ReportedKey = PrimaryKey

\* C4: a failing primary-output write gives a 500 response with body
\* {error, details}, and no status record or preview is written.
C4_PrimaryFailureIs500 ==
    (Invoked /\ last.f.save /\ last.out.data # NoArray) =>
        /\ ~last.out.raised
        /\ last.out.resp.statusCode = 500
        /\ DOMAIN last.out.resp.body = {"error", "details"}
        /\ last.out.writes = <<>>
        /\ store = last.pre

\* the object at key cannot be read as an array: missing or unreadable, an
\* extension other than .npy/.npz, an archive with no recognized name, or
\* content that is not the container its extension announces
InputUnreadable(st, key, getFail) ==
    \/ getFail
    \/ key \notin DOMAIN st
    \/ ~EndsWith(key, ".npy") /\ ~EndsWith(key, ".npz")
    \/ /\ EndsWith(key, ".npz")
       /\ \/ st[key].fmt # "npz"
          \/ DOMAIN st[key].members \cap
               {"images", "train_images", "val_images", "test_images"} = {}
    \/ EndsWith(key, ".npy") /\ st[key].fmt # "npy"

\* C5: when input resolution or loading fails, the stage returns 400 with an
\* error field and has written nothing to the blob store.
C5_LoadFailureIs400NoWrites ==
    (Invoked /\ InputUnreadable(last.pre, last.out.source_key, last.f.get)) =>
        /\ ~last.out.raised
        /\ last.out.resp.statusCode = 400
        /\ "error" \in DOMAIN last.out.resp.body
        /\ last.out.writes = <<>>
        /\ store = last.pre

C5_Witness ==
    /\ IsSyn
    /\ last.out.source_key = "raw/labels.npz"
    /\ last.out.resp.statusCode = 400
    /\ store = last.pre

\* the array the last invocation read
LoadedInput == load_array_from_s3(last.pre, last.out.source_key, last.f.get)

\* the first requested transform that raises on an array of this shape
\* (denoise and normalize keep the shape), "none" if all succeed
FailingTransform(req, a) ==
    IF req.denoise /\ (ndim(a) \notin {2, 3} \/ (ndim(a) = 3 /\ a.shape[1] = 0))
    THEN "denoise"
    ELSE IF req.normalize /\ Size(a) = 0 THEN "normalize"
    ELSE IF req.resample /\ ndim(a) \notin {2, 3} THEN "resample"
    ELSE "none"

\* the requested transforms that precede the named one
RequestedBefore(req, name) ==
    (IF req.denoise /\ name \in {"normalize", "resample"} THEN <<"denoise">> ELSE <<>>)
    \o (IF req.normalize /\ name = "resample" THEN <<"normalize">> ELSE <<>>)

\* C6: in the Preprocess Stage a failing transform stops the chain, the stage
\* returns 500 "Preprocessing failed", and the invocation writes no object.
C6_TransformFailureIs500NoWrites ==
    (IsPre /\ LoadedInput.ok /\ FailingTransform(last.req, LoadedInput.val) # "none") =>
        /\ ~last.out.raised
        /\ last.out.resp.statusCode = 500
        /\ last.out.resp.body.error = "Preprocessing failed"
        /\ last.out.applied =
             RequestedBefore(last.req, FailingTransform(last.req, LoadedInput.val))
        /\ last.out.writes = <<>>
        /\ store = last.pre

C6_Witness ==
    /\ IsPre
    /\ last.out.source_key = "raw/vol.npy"
    /\ last.req.normalize /\ last.req.resample
    /\ last.out.applied = <<"normalize">>
    /\ last.out.resp.statusCode = 500
    /\ store = last.pre

\* the number of images a preview of the persisted array would hold
PreviewCount ==
    IF ndim(last.out.data) = 2 THEN 1
    ELSE IF last.out.data.shape[1] < 32 THEN last.out.data.shape[1] ELSE 32

\* a requested preview export of the last invocation was started and failed
PreviewFailed ==
    /\ PrimaryWritten
    /\ IF IsPre
       THEN \/ /\ last.req.export_png
               /\ \/ ndim(last.out.data) \notin {2, 3}
                  \/ (last.f.png >= 0 /\ last.f.png < PreviewCount)
            \/ /\ last.req.export_zip
               /\ \/ ndim(last.out.data) \notin {2, 3}
                  \/ last.f.zipBuild \/ last.f.zipPut
       ELSE /\ Len(last.out.writes) >= 2
            /\ last.req.export_png
            /\ (last.f.zipBuild \/ last.f.zipPut \/ last.f.status2)

\* the same invocation with no preview requested
WithoutPreview ==
    IF IsPre
    THEN PreHandler(last.pre, [last.req EXCEPT !.export_png = FALSE, !.export_zip = FALSE],
                    last.f, GenRunId(clock))
    ELSE SynHandler(last.pre, [last.req EXCEPT !.export_png = FALSE],
                    last.f, GenRunId(clock), last.seed)

\* C7: a failing preview export never changes the outcome: the stage returns
\* 200 with the run identifier and output key it returns without a preview,
\* and the primary output object is the one it wrote.
C7_PreviewFailureAbsorbed ==
    (Invoked /\ PreviewFailed) =>
        /\ Returned200
        /\ last.out.resp.body.run_id = last.out.run_id
        /\ ReportedKey = PrimaryKey
        /\ WithoutPreview.resp.statusCode = 200
        /\ WithoutPreview.resp.body.run_id = last.out.resp.body.run_id
        /\ WithoutPreview.store[PrimaryKey] = store[PrimaryKey]
        /\ store[PrimaryKey] =
             IF IsPre THEN NpyObj(last.out.data) ELSE RawObj(last.out.data)

C7_Witness ==
    /\ IsPre /\ last.req.export_png /\ last.req.export_zip
    /\ last.f.png = 1 /\ last.f.zipPut
    /\ Returned200
    /\ "work/A/processed_png/0000.png" \in DOMAIN store
    /\ "work/A/processed_png/0001.png" \notin DOMAIN store
    /\ "work/A/processed_preproc.zip" \notin DOMAIN store

\* the four decimal digits of i, most significant first
Digits4(i) ==
    ToString((i \div 1000) % 10) \o ToString((i \div 100) % 10)
    \o ToString((i \div 10) % 10) \o ToString(i % 10)

\* the keys of the key scheme under one run namespace
SchemeKeys(rid) ==
    {"work/" \o rid \o "/" \o n :
        n \in {"processed.npy", "digital_twin.npy", "status.json",
               "processed_preproc.zip", "synthetic.zip"}}
    \cup {"work/" \o rid \o "/processed_png/" \o Digits4(i) \o ".png" : i \in 0..31}

Written == {last.out.writes[i] : i \in 1..Len(last.out.writes)}

\* C8: every object one invocation writes lies under work/<run_id>/ with a
\* key of the key scheme, <run_id> being the identifier the response returns;
\* without a caller run identifier it is a generated one, fixed before the
\* first write.
C8_OneRunNamespace ==
    Invoked =>
        /\ Written \subseteq SchemeKeys(last.out.run_id)
        /\ \A k \in DOMAIN store :
             (k \notin DOMAIN last.pre \/ store[k] # last.pre[k]) => k \in Written
        /\ Returned200 => last.out.resp.body.run_id = last.out.run_id
        /\ (Written # {} /\ (IsSyn \/ ~Truthy(last.req.run_id)))
             => last.out.run_id = GenRunId(clock)
        /\ (Written # {} /\ IsPre /\ Truthy(last.req.run_id))
             => last.out.run_id = last.req.run_id

C8_Witness ==
    /\ IsPre /\ ~Truthy(last.req.run_id) /\ Returned200
    /\ last.req.export_png /\ last.req.export_zip
    /\ Len(last.out.writes) = 3 + BatchN
    /\ Written \cap DOMAIN last.pre = {}

\* C9: in pipeline mode a synthesis call that fails after a successful
\* preprocess call leaves the preprocess output stored and unchanged, nothing
\* is deleted, and the driver has reported the preprocess result and ends
\* with the synthesis error.
C9_PipelinePartialSuccess ==
    (pipe.pc = "failed" /\ pipe.calls = 2 /\ pipe.at = clock) =>
        /\ pipe.pre.resp.body.output_key \in DOMAIN store
        /\ store[pipe.pre.resp.body.output_key] = NpyObj(pipe.pre.data)
        /\ \A k \in DOMAIN pipe.pre.store : k \in DOMAIN store /\ store[k] = pipe.pre.store[k]
        /\ pipe.printed = <<pipe.pre.resp.body>>
        /\ pipe.error = "HTTPError /synthesis"

C9_Witness ==
    /\ pipe.pc = "failed" /\ pipe.calls = 2 /\ pipe.at = clock
    /\ pipe.syn.raised
    /\ "work/run_2/digital_twin.npy" \in DOMAIN store
    /\ "work/run_1/processed.npy" \in DOMAIN store

IsProcessedKey(k) == EndsWith(k, "/processed.npy")
IsTwinKey(k) == EndsWith(k, "/digital_twin.npy")

\* C10 (as stated): once written, processed.npy and digital_twin.npy are never
\* changed by a later invocation, and no stage writes the other stage's key.
C10_ArraysImmutable ==
    [][\A k \in DOMAIN store :
          (IsProcessedKey(k) \/ IsTwinKey(k)) =>
              (k \in DOMAIN store' /\ store'[k] = store[k])]_vars

\* C10 (amended): no object is ever deleted and no stage writes the other
\* stage's output key; a stored digital_twin.npy is never changed (generated
\* identifiers being fresh); work/<run_id>/processed.npy is created or
\* changed only by a preprocess invocation running under that run_id, and a
\* later such invocation overwrites it.
C10_OwnerOnlyWrites ==
    [][/\ DOMAIN store \subseteq DOMAIN store'
       /\ \A k \in DOMAIN store' :
            (k \notin DOMAIN store \/ store'[k] # store[k]) =>
               /\ IsProcessedKey(k) =>
                    \/ /\ last'.stage = "preprocess"
                       /\ k = "work/" \o last'.out.run_id \o "/processed.npy"
                    \/ /\ pipe'.pc # "idle" /\ pipe'.at = clock'
                       /\ k = "work/" \o pipe'.pre.run_id \o "/processed.npy"
               /\ IsTwinKey(k) =>
                    /\ k \notin DOMAIN store
                    /\ last'.stage = "synthesis"
                    /\ k = "work/" \o last'.out.run_id \o "/digital_twin.npy"]_vars

C10_Witness ==
    /\ IsPre /\ Returned200
    /\ PrimaryKey \in DOMAIN last.pre
    /\ store[PrimaryKey] # last.pre[PrimaryKey]

\* the rank of the drawn array is one the stages accept
RankAccepted == ndim(last.arg) \in {2, 3}

\* C11: every transform and every preview exporter fails, producing no
\* result and writing nothing, on an array whose rank is not 2 or 3.
C11_RankValidated ==
    (last.stage \in {"denoise", "normalize", "resample", "png", "zip"} /\ ~RankAccepted) =>
        /\ ~last.res.ok
        /\ store = <<>>

\* the number of images an array holds
ImageCount(a) == IF ndim(a) = 2 THEN 1 ELSE a.shape[1]

\* the preview cap
Capped(n) == IF n < 32 THEN n ELSE 32

PreviewName(i) == Digits4(i) \o ".png"

\* the archive entries are the first k images of a, named 0000.png onwards
EntriesAre(entries, a, k) ==
    /\ Len(entries) = k
    /\ \A i \in 1..k :
         /\ entries[i].name = PreviewName(i - 1)
         /\ entries[i].png.fmt = "png"
         /\ entries[i].png.img.id = a.imgs[i].id

\* the store holds exactly the first k images of a under the prefix
PrefixHolds(st, prefix, a, k) ==
    /\ DOMAIN st = {prefix \o PreviewName(i) : i \in 0..(k - 1)}
    /\ \A i \in 0..(k - 1) :
         /\ st[prefix \o PreviewName(i)].fmt = "png"
         /\ st[prefix \o PreviewName(i)].img.id = a.imgs[i + 1].id

\* C12: for a batch of N images each export mode emits exactly min(N, 32)
\* images, named 0000 .. min(N,32)-1 in increasing order; prefix mode returns
\* that count; a rank-2 input yields exactly the one image 0000.
C12_PreviewCap ==
    /\ (last.stage = "png" /\ RankAccepted) =>
          /\ last.res.ok
          /\ last.res.count = Capped(ImageCount(last.arg))
          /\ PrefixHolds(store, UnitPrefix, last.arg, Capped(ImageCount(last.arg)))
          /\ last.res.writes =
               [i \in 1..Capped(ImageCount(last.arg)) |-> UnitPrefix \o PreviewName(i - 1)]
    /\ (last.stage = "zip" /\ RankAccepted) =>
          /\ last.res.ok
          /\ EntriesAre(last.res.entries, last.arg, Capped(ImageCount(last.arg)))
    /\ last.stage = "synzip" =>
          /\ DOMAIN store = {"work/u/synthetic.zip", "work/u/status.json"}
          /\ store["work/u/synthetic.zip"].fmt = "zip"
          /\ EntriesAre(store["work/u/synthetic.zip"].entries, last.arg,
                        Capped(ImageCount(last.arg)))

C12_Witness ==
    /\ last.stage = "png"
    /\ ndim(last.arg) = 3 /\ last.arg.shape[1] > 32
    /\ last.res.count = 32
    /\ (UnitPrefix \o "0031.png") \in DOMAIN store
    /\ (UnitPrefix \o "0032.png") \notin DOMAIN store

\* the processed array of run r
ProcessedKeyOf(r) == "work/" \o r \o "/processed.npy"

\* twin is a twin drawn from src: same shape, element type and images, each
\* image carrying one more operation, the draw
TwinOf(twin, src, seed) ==
    /\ twin.shape = src.shape
    /\ twin.dtype = src.dtype
    /\ Len(twin.imgs) = Len(src.imgs)
    /\ \A k \in 1..Len(src.imgs) :
         /\ twin.imgs[k].id = src.imgs[k].id
         /\ twin.imgs[k].ops = src.imgs[k].ops \o <<"twin" \o ToString(seed)>>

\* C13: a synthesis request whose run_id names a run with a stored
\* processed.npy reads exactly that object (the blob store answering), and
\* the twin it persists has the shape and element type of that array.
C13_SynthesisChained ==
    (IsSyn /\ Truthy(last.req.run_id) /\ ~last.f.get
       /\ ProcessedKeyOf(last.req.run_id) \in DOMAIN last.pre) =>
        /\ last.out.source_key = ProcessedKeyOf(last.req.run_id)
        /\ last.out.resp.statusCode # 400
        /\ PrimaryWritten =>
             /\ TwinOf(last.out.data, last.pre[ProcessedKeyOf(last.req.run_id)].arr,
                       last.seed)
             /\ store[PrimaryKey] = RawObj(last.out.data)

C13_Witness ==
    /\ IsSyn /\ Truthy(last.req.run_id) /\ Returned200
    /\ last.out.source_key = ProcessedKeyOf(last.req.run_id)
    /\ ndim(last.out.data) = 3
    /\ last.out.data.shape[1] < BatchN
    /\ PrimaryKey \in DOMAIN store

\* the status record of the run of the last invocation
StatusKey == "work/" \o last.out.run_id \o "/status.json"

\* the key fields of a status document
KeyFields(doc) == {"source_key", "input_key"} \cap DOMAIN doc

\* the output key a status document records
RecordedOutput(doc) ==
    IF "output_key" \in DOMAIN doc THEN doc.output_key ELSE doc.digital_twin_key

\* C14: after a successful invocation whose status write succeeded, the
\* stored status record holds the key that was actually loaded, the output
\* key and the caller's recipe; for preprocess also the three requested flags.
C14_StatusRecordsRun ==
    (Invoked /\ Returned200 /\ ~last.f.status /\ ~last.f.status2) =>
        /\ StatusKey \in DOMAIN store
        /\ store[StatusKey].fmt = "json"
        /\ \E fld \in KeyFields(store[StatusKey].doc) :
             store[StatusKey].doc[fld] = last.out.source_key
        /\ RecordedOutput(store[StatusKey].doc) = PrimaryKey
        /\ store[StatusKey].doc.recipe = last.req.recipe
        /\ IsPre => store[StatusKey].doc.options =
                      [denoise |-> last.req.denoise, normalize |-> last.req.normalize,
                       resample |-> last.req.resample]

\* the request fields of the last invocation
GivenRunId == Truthy(last.req.run_id)
GivenSourceKey == Truthy(last.req.source_key)
GivenInputKey == IsSyn /\ Truthy(last.req.input_key)

\* the images of the default dataset were the ones read
ReadDefaultDataset ==
    Returned200 =>
        /\ Len(last.out.data.imgs) >= 1
        /\ last.out.data.imgs[1].id = last.pre["raw/chestmnist.npz"].members.train_images.imgs[1].id

\* C15: without an explicit key a run identifier R resolves to R's output for
\* the stage's input role (preprocess: work/R/digital_twin.npy, synthesis:
\* work/R/processed.npy); with neither, the default dataset key is loaded; in
\* synthesis source_key is taken before input_key.
C15_ResolutionFallbacks ==
    /\ (IsPre /\ ~GivenSourceKey /\ GivenRunId) =>
          last.out.source_key = "work/" \o last.req.run_id \o "/digital_twin.npy"
    /\ (IsSyn /\ ~GivenSourceKey /\ ~GivenInputKey /\ GivenRunId) =>
          last.out.source_key = "work/" \o last.req.run_id \o "/processed.npy"
    /\ (Invoked /\ ~GivenSourceKey /\ ~GivenInputKey /\ ~GivenRunId) =>
          /\ last.out.source_key = "raw/chestmnist.npz"
          /\ ReadDefaultDataset
    /\ (IsSyn /\ GivenSourceKey /\ GivenInputKey /\ ~GivenRunId) =>
          last.out.source_key = last.req.source_key

C15_Witness ==
    /\ IsPre /\ ~GivenSourceKey /\ GivenRunId
    /\ last.out.source_key = "work/" \o last.req.run_id \o "/digital_twin.npy"
    /\ last.out.source_key \in DOMAIN last.pre

\* the body of the response of the last invocation
Body == last.out.resp.body

RunPrefix == "work/" \o last.out.run_id \o "/"

\* every preview PNG of the persisted array was put by the last invocation
PngAllWritten ==
    /\ ndim(last.out.data) \in {2, 3}
    /\ \A i \in 0..(PreviewCount - 1) :
         (RunPrefix \o "processed_png/" \o Digits4(i) \o ".png") \in Written

\* the preview archive was put by the last invocation
ArchiveUploaded ==
    IF IsPre THEN (RunPrefix \o "processed_preproc.zip") \in Written
    ELSE (RunPrefix \o "synthetic.zip") \in Written

\* C16: a 200 response carries a preview field exactly when that preview was
\* requested and its export succeeded: in preprocess the PNG prefix and count
\* and the archive key; in synthesis the archive key.
C16_PreviewFieldsReported ==
    (Invoked /\ Returned200) =>
        /\ IsPre =>
             /\ ("processed_png_prefix" \in DOMAIN Body) <=>
                   (last.req.export_png /\ PngAllWritten)
             /\ ("processed_png_count" \in DOMAIN Body) <=>
                   ("processed_png_prefix" \in DOMAIN Body)
             /\ ("processed_zip_key" \in DOMAIN Body) <=>
                   (last.req.export_zip /\ ArchiveUploaded)
        /\ IsSyn =>
             ((\E fld \in DOMAIN Body : Body[fld] = RunPrefix \o "synthetic.zip") <=>
                   (last.req.export_png /\ ArchiveUploaded))

\* the array read can be processed by the stage of the last invocation
Processable ==
    IF IsPre THEN FailingTransform(last.req, LoadedInput.val) = "none"
    ELSE ndim(LoadedInput.val) \in {2, 3}

\* input loading, processing and the primary output write all succeeded
CoreSucceeded ==
    /\ ~InputUnreadable(last.pre, last.out.source_key, last.f.get)
    /\ Processable
    /\ ~last.f.save

\* C17: a stage returns 200 if and only if loading, processing and the
\* primary output write all succeeded; a 200 response implies the invocation
\* wrote its output array to the returned key, any other outcome implies it
\* wrote no primary output.
C17_SuccessIffPrimaryWritten ==
    Invoked =>
        /\ Returned200 <=> CoreSucceeded
        /\ Returned200 =>
             /\ ReportedKey \in Written
             /\ store[ReportedKey] =
                  IF IsPre THEN NpyObj(last.out.data) ELSE RawObj(last.out.data)
        /\ ~Returned200 => ~(\E k \in Written : IsProcessedKey(k) \/ IsTwinKey(k))

\* the complete output of a request on the raw data: what it computes alone
OutputAlone(req) ==
    NpyObj(ApplyTransforms(load_array_from_s3(RawStore, req.source_key, FALSE).val,
                           req.denoise, req.normalize, req.resample).val)

\* the invocation whose put of processed.npy happened last
LastPutter == CHOOSE p \in 1..2 : \A q \in 1..2 : procs[q].putAt <= procs[p].putAt

\* C18: for two concurrent preprocess invocations under the same run_id, in
\* every interleaving of their blob-store calls work/<run_id>/processed.npy
\* holds exactly the complete output of the invocation that put it last, and
\* both invocations return 200.
C18_LastWriterWins ==
    /\ (\E p \in 1..2 : procs[p].putAt > 0) =>
          /\ "work/A/processed.npy" \in DOMAIN store
          /\ store["work/A/processed.npy"] = OutputAlone(procs[LastPutter].req)
    /\ (\A p \in 1..2 : procs[p].pc = "done") =>
          \A p \in 1..2 :
              /\ procs[p].resp.statusCode = 200
              /\ procs[p].resp.body.run_id = "A"
              /\ procs[p].resp.body.output_key = "work/A/processed.npy"
              /\ procs[p].putAt > 0

C18_Witness ==
    /\ \A p \in 1..2 : procs[p].pc = "done" /\ procs[p].resp.statusCode = 200
    /\ procs[2].putAt > 0
    /\ procs[1].putAt > procs[2].putAt
    /\ OutputAlone(procs[1].req) # OutputAlone(procs[2].req)
    /\ store["work/A/processed.npy"] = OutputAlone(procs[1].req)
    /\ store["work/A/status.json"].doc.source_key = procs[2].req.source_key
    /\ procs[1].req.source_key # procs[2].req.source_key

\* the transforms a request asks for, in the order of the stage
Requested(req) ==
    (IF req.denoise THEN <<"denoise">> ELSE <<>>)
    \o (IF req.normalize THEN <<"normalize">> ELSE <<>>)
    \o (IF req.resample THEN <<"resample">> ELSE <<>>)

\* the numeric operations a processed image carries when denoise ran first
\* and normalize second, over all n images that were read
ExpectedOps(req, n) ==
    (IF req.denoise THEN <<"denoise">> ELSE <<>>)
    \o (IF req.normalize THEN <<"normalize/" \o ToString(n)>> ELSE <<>>)

\* the index in the array read of the k-th persisted image: resample, run
\* last, keeps every second image of a batch
SourceIndex(req, a, k) == IF req.resample /\ ndim(a) = 3 THEN 2 * k - 1 ELSE k

\* the number of images persisted
KeptCount(req, a) ==
    IF req.resample /\ ndim(a) = 3 THEN (Len(a.imgs) + 1) \div 2 ELSE Len(a.imgs)

\* out is a processed by the requested transforms in the order denoise,
\* normalize, resample, each once
ProcessedInOrder(out, a, req) ==
    /\ Len(out.imgs) = KeptCount(req, a)
    /\ \A k \in 1..Len(out.imgs) :
         /\ out.imgs[k].id = a.imgs[SourceIndex(req, a, k)].id
         /\ out.imgs[k].ops =
              a.imgs[SourceIndex(req, a, k)].ops \o ExpectedOps(req, Len(a.imgs))

\* C19: for every combination of the three flags the Preprocess Stage applies
\* the requested transforms in the order denoise, normalize, resample, each
\* once, and none that was not requested; with all flags false the persisted
\* array is the loaded array.
C19_FixedTransformOrder ==
    (IsPre /\ Returned200) =>
        /\ last.out.applied = Requested(last.req)
        /\ ProcessedInOrder(last.out.data, LoadedInput.val, last.req)
        /\ store[PrimaryKey] = NpyObj(last.out.data)
        /\ (~last.req.denoise /\ ~last.req.normalize /\ ~last.req.resample) =>
               store[PrimaryKey] = NpyObj(LoadedInput.val)

C19_Witness ==
    /\ IsPre /\ Returned200
    /\ last.req.denoise /\ last.req.normalize /\ last.req.resample
    /\ Len(LoadedInput.val.imgs) = BatchN
    /\ Len(last.out.data.imgs) < BatchN
    /\ last.out.data.imgs[1].ops = <<"denoise", "normalize/" \o ToString(BatchN)>>

\* ceil(n / 2)
HalfUp(n) == IF n % 2 = 0 THEN n \div 2 ELSE (n + 1) \div 2

\* C20: resample with factor 2 turns a rank-3 batch of N images into the
\* batch of the ceil(N/2) images at indices 0, 2, 4, ... in order, image size
\* and element type unchanged, and returns a rank-2 input unchanged.
C20_ResampleHalves ==
    last.stage = "resample" =>
        /\ ndim(last.arg) = 3 =>
             /\ last.res.ok
             /\ last.res.val.shape =
                  <<HalfUp(last.arg.shape[1]), last.arg.shape[2], last.arg.shape[3]>>
             /\ last.res.val.dtype = last.arg.dtype
             /\ Len(last.res.val.imgs) = HalfUp(last.arg.shape[1])
             /\ \A k \in 1..HalfUp(last.arg.shape[1]) :
                  last.res.val.imgs[k] = last.arg.imgs[2 * k - 1]
        /\ ndim(last.arg) = 2 =>
             /\ last.res.ok
             /\ last.res.val = last.arg

C20_Witness ==
    /\ last.stage = "resample"
    /\ ndim(last.arg) = 3 /\ last.arg.shape[1] = 5
    /\ last.res.ok
    /\ Len(last.res.val.imgs) = 3
    /\ last.res.val.imgs[3] = last.arg.imgs[5]

\* the driver's pipeline command has just ended
PipelineEnded == pipe.pc # "idle" /\ pipe.at = clock

\* the preprocess call of the pipeline answered 200
PipePreSucceeded == ~pipe.pre.raised /\ pipe.pre.resp.statusCode = 200

\* C21: in pipeline mode the synthesis call is issued only after the
\* preprocess call returned successfully, carries the run identifier that
\* call returned, and loads exactly the output_key that call reported; after
\* a failed preprocess call no synthesis call is issued.
C21_PipelineChained ==
    PipelineEnded =>
        /\ (pipe.calls = 2) <=> PipePreSucceeded
        /\ pipe.calls = 1 =>
             /\ pipe.syn = NoResult
             /\ last.stage = "preprocess"
             /\ store = pipe.pre.store
        /\ pipe.calls = 2 =>
             /\ last.stage = "synthesis"
             /\ last.pre = pipe.pre.store
             /\ last.req.run_id = pipe.pre.resp.body.run_id
             /\ last.out = pipe.syn
             /\ pipe.syn.source_key = pipe.pre.resp.body.output_key

C21_Witness ==
    /\ PipelineEnded /\ pipe.pc = "done" /\ pipe.calls = 2
    /\ pipe.pre.resp.body.run_id = "run_1"
    /\ pipe.syn.source_key = "work/run_1/processed.npy"
    /\ pipe.syn.resp.statusCode = 200
    /\ Len(pipe.syn.data.imgs) < BatchN

\* the event carries a text chunk
CarriesText(e) == "chunk" \in DOMAIN e /\ "bytes" \in DOMAIN e.chunk

\* the text of the events from index i on, in arrival order
RECURSIVE TextFrom(_, _)
TextFrom(es, i) ==
    IF i > Len(es) THEN ""
    ELSE (IF CarriesText(es[i]) THEN Decode(es[i].chunk.bytes) ELSE "")
         \o TextFrom(es, i + 1)

\* C22: agent mode returns the concatenation, in arrival order, of the text
\* of exactly the events that carry a text chunk; other events contribute
\* nothing and raise nothing; an absent or empty stream gives "".
C22_AgentAggregates ==
    (last.stage = "agent" /\ last.pc = "done") =>
        /\ last.rest = <<>>
        /\ last.reply = TextFrom(last.events, 1)
        /\ (~last.present \/ last.events = <<>>) => last.reply = ""
        /\ (\A i \in 1..Len(last.events) : ~CarriesText(last.events[i])) =>
               last.reply = ""

C22_Witness ==
    /\ last.stage = "agent" /\ last.pc = "done"
    /\ Len(last.events) = 3
    /\ CarriesText(last.events[1])
    /\ ~CarriesText(last.events[2])
    /\ CarriesText(last.events[3])
    /\ last.events[1].chunk.bytes = <<"b", "L">>
    /\ last.events[3].chunk.bytes = <<"T", "c">>
    /\ last.reply = "bc"

\* the stored status record describes the last invocation
StatusDescribesLast ==
    /\ store[StatusKey].doc.options =
         [denoise |-> last.req.denoise, normalize |-> last.req.normalize,
          resample |-> last.req.resample]
    /\ store[StatusKey].doc.source_key = last.out.source_key

\* C23 (as stated): whenever work/<run_id>/status.json exists and names
\* work/<run_id>/processed.npy, its options and source_key are those of the
\* invocation that wrote the stored processed.npy (here: the last invocation,
\* which has just written it).
C23_StatusMatchesProcessed ==
    (IsPre /\ PrimaryWritten /\ StatusKey \in DOMAIN store
       /\ store[StatusKey].doc.output_key = PrimaryKey) =>
        StatusDescribesLast

\* C23 (amended): for preprocess invocations that do not overlap, an
\* invocation that wrote processed.npy writes status.json exactly when its
\* status put succeeds, and the record then names its processed.npy, options
\* and resolved source_key; when the put fails the record of an earlier
\* invocation under the same run_id, if any, stays as it was.
C23_StatusOfLastSuccessfulWrite ==
    (IsPre /\ PrimaryWritten) =>
        /\ (StatusKey \in Written) <=> ~last.f.status
        /\ (StatusKey \in Written) =>
             /\ store[StatusKey].doc.output_key = PrimaryKey
             /\ StatusDescribesLast
        /\ (StatusKey \notin Written) =>
             /\ (StatusKey \in DOMAIN store) <=> (StatusKey \in DOMAIN last.pre)
             /\ (StatusKey \in DOMAIN store) => store[StatusKey] = last.pre[StatusKey]

C23_Witness ==
    /\ IsPre /\ PrimaryWritten /\ Returned200
    /\ last.f.status
    /\ StatusKey \in DOMAIN store
    /\ store[StatusKey].doc.output_key = PrimaryKey
    /\ store[StatusKey].doc.source_key # last.out.source_key

\* str.startswith
StartsWith(str, prefix) ==
    /\ Len(str) >= Len(prefix)
    /\ SubSeq(str, 1, Len(prefix)) = prefix

\* the keys the last invocation created or changed
Touched == {k \in DOMAIN store : k \notin DOMAIN last.pre \/ store[k] # last.pre[k]}

\* C24: the Synthesis Stage files everything under the identifier it
\* generated at its start, never under the run_id of the request: it creates
\* or changes no object in the namespace it reads from, and the run_id it
\* returns differs from the one it was given.
C24_SynthesisOwnNamespace ==
    IsSyn =>
        /\ last.out.run_id = GenRunId(clock)
        /\ \A k \in Written \cup Touched : StartsWith(k, "work/" \o GenRunId(clock) \o "/")
        /\ ~StartsWith(last.out.source_key, "work/" \o GenRunId(clock) \o "/")
        /\ Truthy(last.req.run_id) =>
             /\ last.out.run_id # last.req.run_id
             /\ \A k \in Written \cup Touched :
                  ~StartsWith(k, "work/" \o last.req.run_id \o "/")
        /\ Returned200 =>
             /\ last.out.resp.body.run_id = GenRunId(clock)
             /\ last.out.resp.body.run_id # last.req.run_id

C24_Witness ==
    /\ IsSyn /\ Returned200
    /\ last.req.run_id = "run_1"
    /\ last.out.resp.body.run_id = "run_2"
    /\ "work/run_2/digital_twin.npy" \in Touched
    /\ "work/run_1/processed.npy" \in DOMAIN store

\* the body of the event is missing, empty, not valid JSON, or JSON that is
\* not an object
Malformed(event) ==
    \/ event.type # "dict"
    \/ "body" \notin DOMAIN event.fields
    \/ ~PyTruthy(event.fields.body)
    \/ /\ event.fields.body.type = "str"
       /\ \/ event.fields.body.doc = NotJson
          \/ event.fields.body.doc.type # "dict"

\* what the stage of the last invocation does on a request with no fields
OnNoFields ==
    IF IsPre
    THEN PreHandler(last.pre, PreDefaults, last.f, GenRunId(clock))
    ELSE SynHandler(last.pre, SynDefaults, last.f, GenRunId(clock), last.seed)

\* the status record of the run of the last invocation has an empty recipe
EmptyRecipeRecorded ==
    ("work/" \o GenRunId(clock) \o "/status.json") \in DOMAIN store =>
        store["work/" \o GenRunId(clock) \o "/status.json"].doc.recipe = "{}"

\* the keys of the primary output and the status record of run rid
CoreKeys(rid) ==
    {"work/" \o rid \o "/" \o n : n \in {"processed.npy", "digital_twin.npy", "status.json"}}

\* C25: in both stages a body that is missing, empty, not valid JSON or JSON
\* that is not an object is handled exactly like a request with no fields:
\* the default dataset key is loaded, no option is set, the recipe is empty,
\* the run identifier is newly generated, and no error is returned because
\* of the body itself.
C25_MalformedBodyAsNoFields ==
    (Invoked /\ Malformed(last.event)) =>
        /\ last.out = OnNoFields
        /\ last.out.source_key = DEFAULT_RAW_KEY
        /\ IsPre => last.out.applied = <<>>
        /\ (last.f = NoFaults /\ DEFAULT_RAW_KEY \in DOMAIN last.pre) => Returned200
        /\ Returned200 =>
             /\ Body.run_id = GenRunId(clock)
             /\ Written \subseteq CoreKeys(GenRunId(clock))
             /\ EmptyRecipeRecorded
             /\ ReadDefaultDataset

C25_Witness ==
    /\ IsSyn /\ Returned200
    /\ last.event = Dict([body |-> Text("[\"A\"]", List(1))])
    /\ last.out.source_key = DEFAULT_RAW_KEY
    /\ Body.run_id = "run_1"

====
